---- MODULE Spec2Model ----
(***************************************************************************)
(* State-machine model of src/Etna_example/nhi_oli_8_9_sp_v01.py: the      *)
(* NHI (Normalized Hotspot Index) batch script for Landsat 8 & 9.          *)
(*                                                                         *)
(* Text is modelled as sequences of one-character strings.  Radiances are  *)
(* integers in tenths of a radiance unit (71.3 is 713).  Times are         *)
(* integers in half days; a calendar date d starts at time 2*d.  A band    *)
(* value is a record [ok, n, d]: ok = FALSE is a masked (absent) pixel,    *)
(* otherwise the value is the rational n/d with d > 0.                     *)
(***************************************************************************)
EXTENDS Integers, Sequences, FiniteSets, TLC

VARIABLES
    pc,         \* position of the script
    line,       \* the loop variable `line` of the configuration reader
    params,     \* dict params: key (lower case) -> value
    site,       \* volcan, lon, lat, radio, start, end, gmail_name (lines 125-131)
    exit_code,  \* -1 while running, else the exit status of the process
    printed,    \* console messages written so far
    calls,      \* external-service calls made so far
    archive,    \* the scenes the service holds, in the order it returns them
    replies,    \* how the service and the disk answer the vector export
    L8raw, L9raw, Lcal, fechas_dt,
    L_nhi_ext_pix,
    L_nhi_swir_pc, L_nhi_swnir_pc, L_nhi_ep_pc,
    filt_L_nhi_swir, filt_L_nhi_swnir, filt_L_nhi_ep,
    rad_tot_Lb6, rad_tot_Lb7,
    dirs,       \* the directories of the working directory
    files,      \* the raster and vector files written: [folder, name, kind]
    vector_log, \* what gee_raster_2_shp printed: [folder, id, event]
    df,         \* the DataFrame of lines 623-627
    csv         \* the rows written by df.to_csv (<<>> before)

loader_vars == <<line, params, site>>

query_vars == <<archive, replies, L8raw, L9raw, Lcal, fechas_dt>>

nhi_vars == <<L_nhi_ext_pix, L_nhi_swir_pc, L_nhi_swnir_pc, L_nhi_ep_pc,
              filt_L_nhi_swir, filt_L_nhi_swnir, filt_L_nhi_ep>>

rad_vars == <<rad_tot_Lb6, rad_tot_Lb7>>

export_vars == <<dirs, files, vector_log>>

report_vars == <<df, csv>>

pipeline_vars == <<query_vars, nhi_vars, rad_vars, export_vars, report_vars>>

vars == <<pc, exit_code, printed, calls, loader_vars, pipeline_vars>>

-----------------------------------------------------------------------------
(* Text helpers (str.strip, str.startswith, in, str.split, str.lower, float) *)

RECURSIVE lstrip(_)
lstrip(s) ==
    IF s # <<>> /\ Head(s) = " " THEN lstrip(Tail(s)) ELSE s

RECURSIVE rstrip(_)
rstrip(s) ==
    IF s # <<>> /\ s[Len(s)] = " " THEN rstrip(SubSeq(s, 1, Len(s) - 1)) ELSE s

strip(s) == rstrip(lstrip(s))

startswith(s, c) == s # <<>> /\ s[1] = c

contains(s, c) == \E i \in 1..Len(s) : s[i] = c

find(s, c) == CHOOSE i \in 1..Len(s) : s[i] = c /\ \A j \in 1..(i - 1) : s[j] # c

\* line.split("=", 1): the text before and after the first '='
split_key(s) == SubSeq(s, 1, find(s, "=") - 1)
split_value(s) == SubSeq(s, find(s, "=") + 1, Len(s))

\* value[0] in ('"', "'") and value[-1] == value[0]  ->  value[1:-1]
unquote(v) ==
    IF v # <<>> /\ v[1] \in {"\"", "'"} /\ v[Len(v)] = v[1]
    THEN SubSeq(v, 2, Len(v) - 1)
    ELSE v

lower_char(c) ==
    CASE c = "L" -> "l"
      [] c = "O" -> "o"
      [] c = "N" -> "n"
      [] OTHER -> c

lower(s) == [i \in 1..Len(s) |-> lower_char(s[i])]

Digits == {"0", "1", "2", "3", "4", "5", "6", "7", "8", "9"}

digit_value(c) ==
    CASE c = "0" -> 0 [] c = "1" -> 1 [] c = "2" -> 2 [] c = "3" -> 3
      [] c = "4" -> 4 [] c = "5" -> 5 [] c = "6" -> 6 [] c = "7" -> 7
      [] c = "8" -> 8 [] c = "9" -> 9

RECURSIVE digits_value(_)
digits_value(s) ==
    IF s = <<>> THEN 0
    ELSE 10 * digits_value(SubSeq(s, 1, Len(s) - 1)) + digit_value(s[Len(s)])

all_digits(s) == s # <<>> /\ \A i \in 1..Len(s) : s[i] \in Digits

\* float(text) on the integer literals of the model: [ok, v]; ok = FALSE is
\* the ValueError that float raises on any other text (the empty text too).
float(text) ==
    LET s == strip(text) IN
    IF all_digits(s) THEN [ok |-> TRUE, v |-> digits_value(s)]
    ELSE IF startswith(s, "-") /\ all_digits(Tail(s))
         THEN [ok |-> TRUE, v |-> 0 - digits_value(Tail(s))]
         ELSE [ok |-> FALSE, v |-> 0]

\* dict.get(key, default) and the dict after params[key] = value
dict_get(d, k, default) == IF k \in DOMAIN d THEN d[k] ELSE default

dict_set(d, k, v) == [x \in (DOMAIN d) \cup {k} |-> IF x = k THEN v ELSE d[x]]

EmptyDict == [x \in {} |-> <<>>]

-----------------------------------------------------------------------------
(* The configuration files the reader is run on: any sequence of these lines *)

K_volcan == <<"v", "o", "l", "c", "a", "n">>
K_lon == <<"l", "o", "n">>
K_lat == <<"l", "a", "t">>
K_radio == <<"r", "a", "d", "i", "o">>
K_start == <<"s", "t", "a", "r", "t">>
K_end == <<"e", "n", "d">>
K_gmail_name == <<"g", "m", "a", "i", "l", "_", "n", "a", "m", "e">>

required_keys == <<K_volcan, K_lon, K_lat, K_radio, K_start, K_end, K_gmail_name>>

ConfigLines ==
    { <<>>,                                                      \* blank
      <<" ", " ">>,                                              \* blank
      <<"#", "l", "o", "n", "=", "2", "0", "0">>,                \* # comment
      <<" ", ";", "c">>,                                         \* ; comment
      <<"v", "o", "l", "c", "a", "n", " ", "F", "u", "e", "g", "o">>,
      <<"v", "o", "l", "c", "a", "n", "=", "'", "E", "t", "n", "a", "'">>,
      <<"L", "O", "N", " ", "=", " ", "1", "8", "0">>,
      <<"l", "o", "n", "=", "2", "0", "0">>,
      <<"l", "o", "n", "=", "x">>,
      <<"l", "a", "t", "=", "-", "9", "0">>,
      <<"l", "a", "t", "=", "-", "9", "1">>,
      <<"r", "a", "d", "i", "o", "=", "5">>,
      <<"r", "a", "d", "i", "o", "=", "0">>,
      <<"s", "t", "a", "r", "t", "=", "1">>,
      <<"s", "t", "a", "r", "t", "=", "\"", " ", "\"">>,
      <<"e", "n", "d", "=", "3">>,
      <<"e", "n", "d", "=">>,
      <<"g", "m", "a", "i", "l", "_", "n", "a", "m", "e", "=", "m", "e">>,
      <<"f", "o", "o", "=", "b", "a", "r">> }

-----------------------------------------------------------------------------
(* Lines 88-145: the parameter loader.  The line counter of enumerate() is  *)
(* left out: it is only interpolated into the diagnostic of line 98.       *)

Exit(status, message) ==
    /\ pc' = "exited"
    /\ exit_code' = status
    /\ printed' = printed \cup {message}

\* line 90: open(args.input_file); FileNotFoundError -> lines 107-109
OpenFile ==
    /\ pc = "open"
    /\ \E exists \in BOOLEAN :
          IF exists
          THEN /\ pc' = "read"
               /\ UNCHANGED <<exit_code, printed>>
          ELSE Exit(1, "Input file not found")
    /\ UNCHANGED <<line, params, site, calls, pipeline_vars>>

\* lines 91-106: one iteration of the for loop over the lines of the file
ReadLine ==
    /\ pc = "read"
    /\ \E raw \in ConfigLines :
          LET l == strip(raw) IN
          /\ line' = l
          /\ IF l = <<>> \/ startswith(l, "#") \/ startswith(l, ";")
             THEN UNCHANGED <<pc, params, exit_code, printed>>
             ELSE IF ~contains(l, "=")
             THEN /\ Exit(1, "is missing '='")
                  /\ UNCHANGED params
             ELSE /\ params' = dict_set(params, lower(strip(split_key(l))),
                                        unquote(strip(split_value(l))))
                  /\ UNCHANGED <<pc, exit_code, printed>>
    /\ UNCHANGED <<site, calls, pipeline_vars>>

\* the for loop ends at the end of the file; the with block closes it
EndOfFile ==
    /\ pc = "read"
    /\ pc' = "required"
    /\ line' = <<>>
    /\ UNCHANGED <<params, site, exit_code, printed, calls, pipeline_vars>>

\* variant: the last required key is not looked for
missing_keys_but_last(d) ==
    {i \in 1..(Len(required_keys) - 1) :
        required_keys[i] \notin {lower(k) : k \in DOMAIN d}}

\* lines 117-122
missing_keys(d) ==
    {i \in 1..Len(required_keys) : required_keys[i] \notin {lower(k) : k \in DOMAIN d}}

CheckRequired ==
    /\ pc = "required"
    /\ IF missing_keys(params) # {}
       THEN Exit(1, "Input file is missing one of the input parameters")
       ELSE /\ pc' = "assign"
            /\ UNCHANGED <<exit_code, printed>>
    /\ UNCHANGED <<line, params, site, calls, pipeline_vars>>

\* lines 125-131; a ValueError of float() is not caught: traceback, status 1
Assign ==
    /\ pc = "assign"
    /\ LET f_lon == float(dict_get(params, K_lon, <<"0">>))
           f_lat == float(dict_get(params, K_lat, <<"0">>))
           f_radio == float(dict_get(params, K_radio, <<"0">>))
       IN IF f_lon.ok /\ f_lat.ok /\ f_radio.ok
          THEN /\ site' = [volcan |-> strip(dict_get(params, K_volcan, <<>>)),
                           lon |-> f_lon.v,
                           lat |-> f_lat.v,
                           radio |-> f_radio.v,
                           start |-> strip(dict_get(params, K_start, <<>>)),
                           end |-> strip(dict_get(params, K_end, <<>>)),
                           gmail_name |-> strip(dict_get(params, K_gmail_name, <<>>))]
               /\ pc' = "validate"
               /\ UNCHANGED <<exit_code, printed>>
          ELSE /\ Exit(1, "ValueError")
               /\ UNCHANGED site
    /\ UNCHANGED <<line, params, calls, pipeline_vars>>

\* variant: the longitude bounds are left out of the test
coordinates_valid_lat_only(lon, lat) == -90 <= lat /\ lat <= 90

\* line 134
coordinates_valid(lon, lat) == -180 <= lon /\ lon <= 180 /\ -90 <= lat /\ lat <= 90

\* lines 134-145
Validate ==
    /\ pc = "validate"
    /\ IF ~coordinates_valid(site.lon, site.lat)
       THEN Exit(1, "Coordinates lon/lat are out of a valid range")
       ELSE IF site.radio <= 0
       THEN Exit(1, "The serach radius must be in km and greater than 0")
       ELSE IF site.start = <<>> \/ site.end = <<>>
       THEN Exit(1, "You must provide the 'start' and 'end' dates")
       ELSE /\ pc' = "authenticate"
            /\ printed' = printed \cup {"Input data successfully read!"}
            /\ UNCHANGED exit_code
    /\ UNCHANGED <<line, params, site, calls, pipeline_vars>>

NoSite == [volcan |-> <<>>, lon |-> 0, lat |-> 0, radio |-> 0,
           start |-> <<>>, end |-> <<>>, gmail_name |-> <<>>]

-----------------------------------------------------------------------------
(* Lines 154-159: authentication and initialisation of the service         *)

\* line 155: ee.Authenticate(); an exception is not caught
Authenticate ==
    /\ pc = "authenticate"
    /\ calls' = calls \cup {"Authenticate"}
    /\ \E granted \in BOOLEAN :
          IF granted
          THEN /\ pc' = "initialize"
               /\ UNCHANGED <<exit_code, printed>>
          ELSE Exit(1, "AuthenticationFailure")
    /\ UNCHANGED <<loader_vars, pipeline_vars>>

\* lines 158-159: ee.Initialize(project='ee-' + gmail_name)
Initialize ==
    /\ pc = "initialize"
    /\ calls' = calls \cup {"Initialize"}
    /\ \E granted \in BOOLEAN :
          IF granted
          THEN /\ pc' = "query"
               /\ printed' = printed \cup {"successfully authenticated"}
               /\ UNCHANGED exit_code
          ELSE Exit(1, "AuthenticationFailure")
    /\ UNCHANGED <<loader_vars, pipeline_vars>>

-----------------------------------------------------------------------------
(* The image algebra of the service, as the script uses it.  An image is   *)
(* [id, t, bands]: system:index, system:time_start and, per band name, the *)
(* sequence of its pixel values.                                           *)

Masked == [ok |-> FALSE, n |-> 0, d |-> 1]

Num(x) == [ok |-> TRUE, n |-> x, d |-> 1]

Null == [ok |-> FALSE, n |-> 0, d |-> 1]

NPixels(img) == Len(img.bands["B6"])

\* ee.Image.normalizedDifference([a, b]): (a - b) / (a + b); masked where an
\* input is masked or negative, or the sum is zero
normalizedDifference(img, a, b) ==
    [i \in 1..NPixels(img) |->
        LET x == img.bands[a][i]
            y == img.bands[b][i]
        IN IF x.ok /\ y.ok /\ x.n >= 0 /\ y.n >= 0 /\ x.n + y.n > 0
           THEN [ok |-> TRUE, n |-> x.n - y.n, d |-> x.n + y.n]
           ELSE Masked]

Truth(b) == IF b THEN Num(1) ELSE Num(0)

\* comparisons with a constant c given in the units of the band (d = 1)
gt(band, c) == [i \in 1..Len(band) |->
    IF band[i].ok THEN Truth(band[i].n > c * band[i].d) ELSE Masked]

gte(band, c) == [i \in 1..Len(band) |->
    IF band[i].ok THEN Truth(band[i].n >= c * band[i].d) ELSE Masked]

lt(band, c) == [i \in 1..Len(band) |->
    IF band[i].ok THEN Truth(band[i].n < c * band[i].d) ELSE Masked]

neq(band, c) == [i \in 1..Len(band) |->
    IF band[i].ok THEN Truth(band[i].n # c * band[i].d) ELSE Masked]

\* ee.Image.And: 1 where both values are non-zero, else 0
And(x, y) == [i \in 1..Len(x) |->
    IF x[i].ok /\ y[i].ok THEN Truth(x[i].n # 0 /\ y[i].n # 0) ELSE Masked]

\* ee.Image.updateMask: a pixel stays where the mask is valid and non-zero
updateMask(band, mask) == [i \in 1..Len(band) |->
    IF band[i].ok /\ mask[i].ok /\ mask[i].n # 0 THEN band[i] ELSE Masked]

addBands(img, name, band) ==
    [img EXCEPT !.bands = [b \in (DOMAIN img.bands) \cup {name} |->
                              IF b = name THEN band ELSE img.bands[b]]]

select(img, names) == [img EXCEPT !.bands = [b \in names |-> img.bands[b]]]

RECURSIVE SumSeq(_)
SumSeq(xs) == IF xs = <<>> THEN 0 ELSE Head(xs) + SumSeq(Tail(xs))

Valid(band) == SelectSeq(band, LAMBDA v : v.ok)

\* variant: a count over no pixel is null instead of 0
ReducerCount_null_when_empty(band) ==
    IF SelectSeq(band, LAMBDA v : v.ok) = <<>> THEN [ok |-> FALSE, n |-> 0, d |-> 1]
    ELSE [ok |-> TRUE, n |-> Len(SelectSeq(band, LAMBDA v : v.ok)), d |-> 1]

\* ee.Reducer.count(): the number of unmasked pixels
ReducerCount(band) == Num(Len(Valid(band)))

\* ee.Reducer.sum(): the sum of the unmasked pixels, 0 when there is none
ReducerSum(band) == Num(SumSeq([i \in 1..Len(Valid(band)) |-> Valid(band)[i].n]))

\* ee.Reducer.max(): the largest unmasked pixel, null when there is none
ReducerMax(band) ==
    IF Valid(band) = <<>> THEN Null
    ELSE Num(CHOOSE m \in {Valid(band)[i].n : i \in 1..Len(Valid(band))} :
                \A i \in 1..Len(Valid(band)) : Valid(band)[i].n <= m)

\* aggregate_array(property): the property of every element, nulls left out
aggregate_array(values) ==
    LET kept == SelectSeq(values, LAMBDA v : v.ok)
    IN [i \in 1..Len(kept) |-> kept[i].n]

-----------------------------------------------------------------------------
(* Lines 209-265: archive query, merge, calibration and clipping.  A raw   *)
(* scene is [id, platform, t, sunel, covers, add, px]; px is the sequence  *)
(* of its pixels [B1, B5, B6, B7, inroi] in digital numbers and add the    *)
(* additive rescaling term of its metadata (RADIANCE_ADD_BAND_x).          *)

\* ee.Date(text) for the date texts of the model, and advance(1, 'day')
ee_Date(text) == 2 * digits_value(strip(text))

advance_day(t) == t + 2

filterDate(collection, from, to) ==
    SelectSeq(collection, LAMBDA s : from <= s.t /\ s.t < to)

\* lines 214-217 (platform 8) and 221-224 (platform 9)
Lraw(coll, platform, start, end) ==
    LET mine == SelectSeq(coll, LAMBDA s : s.platform = platform)
        first == filterDate(mine, ee_Date(start), ee_Date(end))
        second == filterDate(first, ee_Date(start), advance_day(ee_Date(end)))
        sunny == SelectSeq(second, LAMBDA s : s.sunel > 0)
    IN SelectSeq(sunny, LAMBDA s : s.covers)

merge(c1, c2) == c1 \o c2

\* lines 239-241: radiance = gain * DN + add of the scene's metadata, + copy
\* of system:time_start
cal_landsat(s) ==
    [id |-> s.id, t |-> s.t, inroi |-> [i \in 1..Len(s.px) |-> s.px[i].inroi],
     bands |-> [b \in {"B1", "B5", "B6", "B7"} |->
                  [i \in 1..Len(s.px) |-> Num(100 * s.px[i][b] + s.add)]]]

\* lines 246-247: pixels outside the region of interest are masked
clip_img(img) ==
    [id |-> img.id, t |-> img.t,
     bands |-> [b \in DOMAIN img.bands |->
                  [i \in 1..Len(img.bands[b]) |->
                      IF img.inroi[i] THEN img.bands[b][i] ELSE Masked]]]

\* line 257
Calibrated(l8, l9) ==
    [i \in 1..Len(merge(l8, l9)) |-> clip_img(cal_landsat(merge(l8, l9)[i]))]

-----------------------------------------------------------------------------
(* Lines 275-296: the three classifiers                                    *)

B6_Threshold == 713

B1_Threshold == 700

\* variant: the index is kept where it is 0 as well
L_nhi_swir_hp_not_strict(img) ==
    LET nhi == normalizedDifference(img, "B7", "B6")
    IN addBands(img, "nhi_swir", updateMask(nhi, gte(nhi, 0)))

\* lines 275-277
L_nhi_swir_hp(img) ==
    LET nhi == normalizedDifference(img, "B7", "B6")
    IN addBands(img, "nhi_swir", updateMask(nhi, gt(nhi, 0)))

\* lines 284-286
L_nhi_swnir_hp(img) ==
    LET nhi == normalizedDifference(img, "B6", "B5")
    IN addBands(img, "nhi_swnir", updateMask(nhi, gt(nhi, 0)))

\* variant: the test on the B6 radiance is left out
L_ext_pixel_without_B6(img) ==
    LET ext_pix == And(normalizedDifference(img, "B7", "B6"),
                       lt(img.bands["B1"], B1_Threshold))
    IN addBands(img, "L_ext_pix", updateMask(ext_pix, gt(ext_pix, 0)))

\* lines 293-296
L_ext_pixel(img) ==
    LET ext_pix == And(And(normalizedDifference(img, "B7", "B6"),
                           gte(img.bands["B6"], B6_Threshold)),
                       lt(img.bands["B1"], B1_Threshold))
    IN addBands(img, "L_ext_pix", updateMask(ext_pix, gt(ext_pix, 0)))

\* line 380
Classified(collection) ==
    [i \in 1..Len(collection) |->
        L_ext_pixel(L_nhi_swnir_hp(L_nhi_swir_hp(collection[i])))]

\* lines 303-317
count_pixels_per_image(collection, bandname) ==
    aggregate_array([i \in 1..Len(collection) |->
                        ReducerCount(collection[i].bands[bandname])])

\* lines 181-182: image.neq(0) reduced over the bands with ee.Reducer.max():
\* per pixel the largest unmasked value, masked where every band is masked
any_band_has_data_mask(img) ==
    LET some == CHOOSE b \in DOMAIN img.bands : TRUE
    IN [k \in 1..Len(img.bands[some]) |->
          LET vals == {neq(img.bands[b], 0)[k].n : b \in
                          {c \in DOMAIN img.bands : img.bands[c][k].ok}}
          IN IF vals = {} THEN Masked
             ELSE Num(CHOOSE m \in vals : \A v \in vals : v <= m)]

\* lines 183-192
has_data(img) == ReducerMax(any_band_has_data_mask(img))

\* variant: no image is removed
filter_empty_images_none_dropped(collection) == collection

\* lines 177-201
filter_empty_images(collection) ==
    SelectSeq(collection, LAMBDA img : has_data(img).ok /\ has_data(img).n = 1)

\* variant: the collection is filtered with all its bands
select_band_all(collection, bandname) == collection

\* collection.select(bandname)
select_band(collection, bandname) ==
    [i \in 1..Len(collection) |-> select(collection[i], {bandname})]

-----------------------------------------------------------------------------
(* Lines 327-372 and 424-454: masked radiances and their totals            *)

\* img.select(band).updateMask(mask).rename(name): an image of one band
masked_band(img, band, mask, name) ==
    [id |-> img.id, t |-> img.t, bands |-> [b \in {name} |-> updateMask(img.bands[band], mask)]]

mask_L_B6_swir(img) ==
    LET nhi == normalizedDifference(img, "B7", "B6")
    IN masked_band(img, "B6", gte(nhi, 0), "B6_nhi_masked_swir")

mask_L_B6_swnir(img) ==
    LET nhi == normalizedDifference(img, "B6", "B5")
    IN masked_band(img, "B6", gte(nhi, 0), "B6_nhi_masked_swnir")

mask_L_B7_swir(img) ==
    LET nhi == normalizedDifference(img, "B7", "B6")
    IN masked_band(img, "B7", gte(nhi, 0), "B7_nhi_masked_swir")

mask_L_B7_swnir(img) ==
    LET nhi == normalizedDifference(img, "B6", "B5")
    IN masked_band(img, "B7", gte(nhi, 0), "B7_nhi_masked_swnir")

\* lines 424, 427, 442, 445
Lb6_masked_swir(collection) == [i \in 1..Len(collection) |-> mask_L_B6_swir(collection[i])]

Lb6_masked_swnir(collection) == [i \in 1..Len(collection) |-> mask_L_B6_swnir(collection[i])]

Lb7_masked_swir(collection) == [i \in 1..Len(collection) |-> mask_L_B7_swir(collection[i])]

Lb7_masked_swnir(collection) == [i \in 1..Len(collection) |-> mask_L_B7_swnir(collection[i])]

\* lines 356-366
sum_band_each_image(collection, bandname) ==
    aggregate_array([i \in 1..Len(collection) |->
                        ReducerSum(collection[i].bands[bandname])])

\* lines 430, 433, 448, 451
Lrad_b6_swir(collection) ==
    sum_band_each_image(Lb6_masked_swir(collection), "B6_nhi_masked_swir")

Lrad_b6_swnir(collection) ==
    sum_band_each_image(Lb6_masked_swnir(collection), "B6_nhi_masked_swnir")

Lrad_b7_swir(collection) ==
    sum_band_each_image(Lb7_masked_swir(collection), "B7_nhi_masked_swir")

Lrad_b7_swnir(collection) ==
    sum_band_each_image(Lb7_masked_swnir(collection), "B7_nhi_masked_swnir")

\* numpy float32: 24 significant bits, round to nearest, ties to even
RECURSIVE ulp(_)
ulp(x) == IF x < 16777216 THEN 1 ELSE 2 * ulp(x \div 2)

float32(x) ==
    LET u == ulp(x)
        q == x \div u
        r == x % u
    IN IF 2 * r > u \/ (2 * r = u /\ q % 2 = 1) THEN (q + 1) * u ELSE q * u

\* lines 371-372
eelist2float(eelist) == [i \in 1..Len(eelist) |-> float32(eelist[i])]

\* the arrays the script adds have one length, that of the collection
same_length(a, b) == Len(a) = Len(b)

\* lines 436 and 454: a + b of two arrays of one length
np_add(a, b) == [i \in 1..Len(a) |-> float32(a[i] + b[i])]

\* line 436
rad_tot_b6(collection) ==
    np_add(eelist2float(Lrad_b6_swir(collection)), eelist2float(Lrad_b6_swnir(collection)))

\* line 454
rad_tot_b7(collection) ==
    np_add(eelist2float(Lrad_b7_swir(collection)), eelist2float(Lrad_b7_swnir(collection)))

-----------------------------------------------------------------------------
(* Lines 459-575: raster and vector export of the three kept subsets.  The *)
(* file system is fs = [dirs, files, log, raised]: raised is an exception  *)
(* that left gee_raster_2_shp.  plan is a set of [folder, id, reply]: how  *)
(* the vector export of scene id into folder is answered,                  *)
(*   "index_error"  the service fails on system:index (line 470)           *)
(*   "error"        reduceToVectors or getInfo raise (lines 476-485)       *)
(*   "empty"        the service returns no feature                         *)
(*   "write_error"  features are returned, gdf.to_file raises (line 495)   *)
(* and "features" (features are returned and written) for any other scene. *)

\* lines 516-527, without the volcano name they all start with
nhi_swir_folder == "NHI_raster_mid_2_low_hot_pixels"

nhi_swnir_folder == "NHI_raster_high_intensity_pixels"

nhi_extremes_folder == "NHI_raster_extreme_hot_pixels"

Folders == {nhi_swir_folder, nhi_swnir_folder, nhi_extremes_folder}

Replies == {"index_error", "error", "empty", "write_error"}

reply_of(plan, folder, id) ==
    IF \E f \in plan : f.folder = folder /\ f.id = id
    THEN (CHOOSE f \in plan : f.folder = folder /\ f.id = id).reply
    ELSE "features"

said(fs, folder, id, event) ==
    [fs EXCEPT !.log = @ \cup {[folder |-> folder, id |-> id, event |-> event]}]

\* variant: without the try / except of lines 475-501
vectorize_scene_uncaught(fs, img, folder, reply) ==
    IF reply = "index_error" THEN [fs EXCEPT !.raised = TRUE]
    ELSE LET started == said(fs, folder, img.id, "Vectorizando imagen") IN
         IF reply \in {"error", "write_error"} THEN [started EXCEPT !.raised = TRUE]
         ELSE IF reply = "empty" THEN said(started, folder, img.id, "Sin datos en")
         ELSE [said(started, folder, img.id, "Guardado") EXCEPT
                  !.files = @ \cup {[folder |-> folder, name |-> img.id, kind |-> "shp"]}]

\* variant: the test `if features` of line 487 is left out
vectorize_scene_unconditional_write(fs, img, folder, reply) ==
    IF reply = "index_error" THEN [fs EXCEPT !.raised = TRUE]
    ELSE LET started == said(fs, folder, img.id, "Vectorizando imagen") IN
         IF reply \in {"error", "write_error"} THEN said(started, folder, img.id, "Error en")
         ELSE [said(started, folder, img.id, "Guardado") EXCEPT
                  !.files = @ \cup {[folder |-> folder, name |-> img.id, kind |-> "shp"]}]

\* lines 469-501: one iteration of the loop of gee_raster_2_shp
vectorize_scene(fs, img, folder, reply) ==
    IF reply = "index_error" THEN [fs EXCEPT !.raised = TRUE]
    ELSE LET started == said(fs, folder, img.id, "Vectorizando imagen") IN
         IF reply \in {"error", "write_error"} THEN said(started, folder, img.id, "Error en")
         ELSE IF reply = "empty" THEN said(started, folder, img.id, "Sin datos en")
         ELSE [said(started, folder, img.id, "Guardado") EXCEPT
                  !.files = @ \cup {[folder |-> folder, name |-> img.id, kind |-> "shp"]}]

\* lines 468-501: for i in range(num_images); an exception ends the loop
RECURSIVE shp_loop(_, _, _, _, _)
shp_loop(fs, collection, folder, plan, i) ==
    IF i > Len(collection) \/ fs.raised THEN fs
    ELSE shp_loop(vectorize_scene(fs, collection[i], folder,
                                  reply_of(plan, folder, collection[i].id)),
                  collection, folder, plan, i + 1)

\* lines 462-463 and 544-546: the folder is made when it is not there
make_folder(fs, folder) ==
    IF folder \in fs.dirs THEN fs ELSE [fs EXCEPT !.dirs = @ \cup {folder}]

\* lines 459-501
gee_raster_2_shp(fs, collection, folder, plan) ==
    shp_loop(make_folder(fs, folder), collection, folder, plan, 1)

\* line 547, geemap.ee_export_image_collection: one raster per scene, named
\* by system:index
ee_export_image_collection(fs, collection, folder) ==
    [make_folder(fs, folder) EXCEPT
        !.files = @ \cup {[folder |-> folder, name |-> collection[i].id, kind |-> "tif"] :
                             i \in 1..Len(collection)}]

\* variant: the subset is exported without the test of its size
export_subset_unconditional(fs, collection, bandname, folder, plan) ==
    gee_raster_2_shp(ee_export_image_collection(make_folder(fs, folder), collection, folder),
                     select_band(collection, bandname), folder, plan)

\* lines 540-548, 553-561 and 566-574
export_subset(fs, collection, bandname, folder, plan) ==
    IF Len(collection) = 0 THEN fs
    ELSE gee_raster_2_shp(
             ee_export_image_collection(make_folder(fs, folder), collection, folder),
             select_band(collection, bandname), folder, plan)

-----------------------------------------------------------------------------
(* Lines 592-631: the result table                                         *)

PixelArea == 900

\* lines 592-593
list2int(lista) == lista

Min(S) == CHOOSE m \in S : \A x \in S : m <= x

\* line 603: the sum of two arrays of one length
nhi_tot_hpc(swir_pc, swnir_pc) ==
    [i \in 1..Len(swir_pc) |-> swir_pc[i] + swnir_pc[i]]

\* variant: the pixel side (30 m) is used for the pixel area
area_from_side(pc_array) == [i \in 1..Len(pc_array) |-> pc_array[i] * 30]

\* lines 607 and 615
area(pc_array) == [i \in 1..Len(pc_array) |-> pc_array[i] * PixelArea]

\* lines 598-624: pandas.DataFrame(zip(...)): as many rows as the shortest list
DataFrame(dates, swir_pc, swnir_pc, ep_pc, b6, b7) ==
    LET nhi_tot_swir_pc == list2int(swir_pc)
        nhi_tot_swnir_pc == list2int(swnir_pc)
        hpc == nhi_tot_hpc(nhi_tot_swir_pc, nhi_tot_swnir_pc)
        nhi_tot_area == area(hpc)
        ep == list2int(ep_pc)
        ep_area == area(ep)
        n == Min({Len(dates), Len(hpc), Len(ep), Len(b6), Len(b7)})
    IN [i \in 1..n |->
          [Date |-> dates[i],
           swir |-> nhi_tot_swir_pc[i],
           swnir |-> nhi_tot_swnir_pc[i],
           hot |-> hpc[i],
           hot_area |-> nhi_tot_area[i],
           ext |-> ep[i],
           ext_area |-> ep_area[i],
           rad_b6 |-> b6[i],
           rad_b7 |-> b7[i]]]

\* variant: ascending=False
sort_values_descending(frame) ==
    {[i \in 1..Len(frame) |-> frame[p[i]]] : p \in
        {q \in Permutations(1..Len(frame)) :
            \A i, j \in 1..Len(frame) : i < j => frame[q[i]].Date >= frame[q[j]].Date}}

\* variant: the rows are left in the order of the collection
sort_values_omitted(frame) == {frame}

\* line 626: df.sort_values(by='Date'): the default sort is not stable, rows
\* of one Date come out in any order
sort_values(frame) ==
    {[i \in 1..Len(frame) |-> frame[p[i]]] : p \in
        {q \in Permutations(1..Len(frame)) :
            \A i, j \in 1..Len(frame) : i < j => frame[q[i]].Date <= frame[q[j]].Date}}

\* line 627: strftime('%Y-%b-%d') keeps the calendar date of the timestamp
strftime(t) == t \div 2

format_dates(frame) ==
    [i \in 1..Len(frame) |-> [frame[i] EXCEPT !.Date = strftime(frame[i].Date)]]

-----------------------------------------------------------------------------
(* The archives the script is run against                                  *)

NPix == 1

MaxScenes == 2

Pixels ==
    {[B7 |-> b7, B6 |-> b6, B5 |-> b5, B1 |-> b1, inroi |-> TRUE] :
        b7 \in {6, 8, 9}, b6 \in {6, 8}, b5 \in {4, 8}, b1 \in {5, 7}}

Pixel(b7, b6, b5, b1, inroi) ==
    [B7 |-> b7, B6 |-> b6, B5 |-> b5, B1 |-> b1, inroi |-> inroi]

\* hot for both indices; B7 < B6 with B6 >= 71.3 and B1 < 70
ImageHot == <<Pixel(8, 6, 4, 5, TRUE), Pixel(6, 8, 4, 5, TRUE)>>

\* equal bands inside the region of interest, a hot pixel outside of it
ImageCold == <<Pixel(8, 8, 8, 7, TRUE), Pixel(9, 8, 4, 5, FALSE)>>

Images == {ImageHot, ImageCold}

SeqsUpTo(S, n) == UNION {[1..k -> S] : k \in 0..n}

\* one scene inside the query, every image of up to NPix pixels
PixelArchives ==
    {<<[id |-> 1, platform |-> 8, t |-> 2, sunel |-> 30, covers |-> TRUE,
        add |-> 0, px |-> px]>> :
        px \in SeqsUpTo(Pixels, NPix)}

\* up to MaxScenes scenes inside the query, in every order
SceneArchives ==
    {[i \in 1..Len(c) |->
        [id |-> i, platform |-> c[i][1], t |-> c[i][2], sunel |-> 30,
         covers |-> TRUE, add |-> 0, px |-> c[i][3]]] :
        c \in SeqsUpTo({8, 9} \X {2, 3, 4} \X Images, MaxScenes)}

\* one scene, every acquisition time, sun elevation and footprint
MetadataArchives ==
    {<<[id |-> 1, platform |-> p, t |-> t, sunel |-> e, covers |-> c,
        add |-> 0, px |-> ImageHot]>> :
        p \in {8, 9}, t \in 1..8, e \in {0, 30}, c \in BOOLEAN}

\* one dark scene of one pixel: the additive term of the calibration is
\* negative, low digital numbers calibrate to negative radiances
DarkArchives ==
    {<<[id |-> 1, platform |-> 8, t |-> 2, sunel |-> 30, covers |-> TRUE,
        add |-> -700, px |-> <<p>>]>> :
        p \in Pixels}

Archives == PixelArchives \cup SceneArchives \cup MetadataArchives \cup DarkArchives

\* a pixel hot for the SWNIR index only
ImageSwnir == <<Pixel(6, 8, 4, 7, TRUE)>>

\* up to MaxScenes scenes inside the query, one per half day
ExportArchives ==
    {[i \in 1..Len(c) |->
        [id |-> i, platform |-> 8, t |-> 1 + i, sunel |-> 30, covers |-> TRUE,
         add |-> 0, px |-> c[i]]] :
        c \in SeqsUpTo({ImageHot, ImageSwnir}, MaxScenes)}

\* the vector export of at most one scene of one folder is not answered
\* with features that are written
FaultPlans(a) ==
    {{}} \cup {{[folder |-> f, id |-> i, reply |-> r]} :
                  f \in Folders, i \in 1..Len(a), r \in Replies}

\* an archive and the answers to the vector export
Worlds ==
    {[archive |-> a, replies |-> {}] : a \in Archives}
    \cup UNION {{[archive |-> a, replies |-> r] : r \in FaultPlans(a)} : a \in ExportArchives}

-----------------------------------------------------------------------------
(* Lines 209-673: the pipeline                                             *)

\* lines 209-231
Query ==
    /\ pc = "query"
    /\ \E w \in Worlds :
          /\ archive' = w.archive
          /\ replies' = w.replies
          /\ L8raw' = Lraw(w.archive, 8, site.start, site.end)
          /\ L9raw' = Lraw(w.archive, 9, site.start, site.end)
    /\ calls' = calls \cup {"L8raw.size", "L9raw.size"}
    /\ pc' = "calibrate"
    /\ UNCHANGED <<exit_code, printed, loader_vars, Lcal, fechas_dt,
                   nhi_vars, rad_vars, export_vars, report_vars>>

\* lines 257-265
Calibrate ==
    /\ pc = "calibrate"
    /\ Lcal' = Calibrated(L8raw, L9raw)
    /\ fechas_dt' = aggregate_array([i \in 1..Len(Lcal') |-> Num(Lcal'[i].t)])
    /\ calls' = calls \cup {"Lcal.size", "date_property"}
    /\ pc' = "classify"
    /\ UNCHANGED <<exit_code, printed, loader_vars, archive, replies, L8raw, L9raw,
                   nhi_vars, rad_vars, export_vars, report_vars>>

\* lines 380-390
Classify ==
    /\ pc = "classify"
    /\ L_nhi_ext_pix' = Classified(Lcal)
    /\ L_nhi_swir_pc' = count_pixels_per_image(L_nhi_ext_pix', "nhi_swir")
    /\ L_nhi_swnir_pc' = count_pixels_per_image(L_nhi_ext_pix', "nhi_swnir")
    /\ L_nhi_ep_pc' = count_pixels_per_image(L_nhi_ext_pix', "L_ext_pix")
    /\ calls' = calls \cup {"pixel_counts"}
    /\ pc' = "filter"
    /\ UNCHANGED <<exit_code, printed, loader_vars, query_vars,
                   filt_L_nhi_swir, filt_L_nhi_swnir, filt_L_nhi_ep,
                   rad_vars, export_vars, report_vars>>

\* lines 396-412
FilterEmpty ==
    /\ pc = "filter"
    /\ filt_L_nhi_swir' = filter_empty_images(select_band(L_nhi_ext_pix, "nhi_swir"))
    /\ filt_L_nhi_swnir' = filter_empty_images(select_band(L_nhi_ext_pix, "nhi_swnir"))
    /\ filt_L_nhi_ep' = filter_empty_images(select_band(L_nhi_ext_pix, "L_ext_pix"))
    /\ pc' = "radiance"
    /\ UNCHANGED <<exit_code, printed, calls, loader_vars, query_vars,
                   L_nhi_ext_pix, L_nhi_swir_pc, L_nhi_swnir_pc, L_nhi_ep_pc,
                   rad_vars, export_vars, report_vars>>

\* lines 424-454; numpy raises ValueError when it adds arrays of two lengths
Radiance ==
    /\ pc = "radiance"
    /\ calls' = calls \cup {"eelist.getInfo"}
    /\ IF /\ same_length(Lrad_b6_swir(Lcal), Lrad_b6_swnir(Lcal))
          /\ same_length(Lrad_b7_swir(Lcal), Lrad_b7_swnir(Lcal))
       THEN /\ rad_tot_Lb6' = rad_tot_b6(Lcal)
            /\ rad_tot_Lb7' = rad_tot_b7(Lcal)
            /\ pc' = "export_swir"
            /\ UNCHANGED <<exit_code, printed>>
       ELSE /\ Exit(1, "ValueError")
            /\ UNCHANGED rad_vars
    /\ UNCHANGED <<loader_vars, query_vars, nhi_vars, export_vars, report_vars>>

\* lines 540-548 for one subset: the size of the subset is asked for, the
\* subset is exported unless it is empty; an exception that leaves
\* gee_raster_2_shp ends the script
Export(from, collection, bandname, folder, message, to) ==
    /\ pc = from
    /\ calls' = calls \cup {"filt.size"}
    /\ LET fs == export_subset([dirs |-> dirs, files |-> files,
                                log |-> vector_log, raised |-> FALSE],
                               collection, bandname, folder, replies)
       IN /\ dirs' = fs.dirs
          /\ files' = fs.files
          /\ vector_log' = fs.log
          /\ IF fs.raised
             THEN Exit(1, "ExternalServiceFailure")
             ELSE /\ pc' = to
                  /\ printed' = printed \cup
                        {IF Len(collection) = 0 THEN message
                         ELSE "The following folder will be crated"}
                  /\ UNCHANGED exit_code
    /\ UNCHANGED <<loader_vars, query_vars, nhi_vars, rad_vars, report_vars>>

\* lines 540-548
ExportSwir ==
    Export("export_swir", filt_L_nhi_swir, "nhi_swir", nhi_swir_folder,
           "No NHI SWIR pixels were found", "export_swnir")

\* lines 553-561
ExportSwnir ==
    Export("export_swnir", filt_L_nhi_swnir, "nhi_swnir", nhi_swnir_folder,
           "No NHI SWNIR pixels were found", "export_ep")

\* lines 566-574
ExportExtreme ==
    Export("export_ep", filt_L_nhi_ep, "L_ext_pix", nhi_extremes_folder,
           "No NHI Extreme Pixels were found", "report")

\* lines 578-634; numpy raises ValueError when line 603 adds arrays of two lengths
Report ==
    /\ pc = "report"
    /\ calls' = calls \cup {"filt.size"}
    /\ IF same_length(L_nhi_swir_pc, L_nhi_swnir_pc)
       THEN /\ \E sorted \in sort_values(DataFrame(fechas_dt, L_nhi_swir_pc,
                                L_nhi_swnir_pc, L_nhi_ep_pc, rad_tot_Lb6, rad_tot_Lb7)) :
                  /\ df' = format_dates(sorted)
                  /\ csv' = format_dates(sorted)
            /\ printed' = printed \cup {"NHI and radiance results saved into file"}
            /\ pc' = "charts"
            /\ UNCHANGED exit_code
       ELSE /\ Exit(1, "ValueError")
            /\ UNCHANGED report_vars
    /\ UNCHANGED <<loader_vars, query_vars, nhi_vars, rad_vars, export_vars>>

\* lines 640-673
Charts ==
    /\ pc = "charts"
    /\ pc' = "exited"
    /\ exit_code' = 0
    /\ printed' = printed \cup {"The script has successfully finish processing"}
    /\ UNCHANGED <<calls, loader_vars, pipeline_vars>>

\* a failing call to the service raises an exception that nothing catches
ExternalServiceFailure ==
    /\ pc \in {"query", "calibrate", "classify", "radiance",
               "export_swir", "export_swnir", "export_ep", "report"}
    /\ calls' = calls \cup {"failed"}
    /\ Exit(1, "ExternalServiceFailure")
    /\ UNCHANGED <<loader_vars, pipeline_vars>>

-----------------------------------------------------------------------------

Init ==
    /\ pc = "open"
    /\ line = <<>>
    /\ params = EmptyDict
    /\ site = NoSite
    /\ exit_code = -1
    /\ printed = {}
    /\ calls = {}
    /\ archive = <<>>
    /\ replies = {}
    /\ L8raw = <<>>
    /\ L9raw = <<>>
    /\ Lcal = <<>>
    /\ fechas_dt = <<>>
    /\ L_nhi_ext_pix = <<>>
    /\ L_nhi_swir_pc = <<>>
    /\ L_nhi_swnir_pc = <<>>
    /\ L_nhi_ep_pc = <<>>
    /\ filt_L_nhi_swir = <<>>
    /\ filt_L_nhi_swnir = <<>>
    /\ filt_L_nhi_ep = <<>>
    /\ rad_tot_Lb6 = <<>>
    /\ rad_tot_Lb7 = <<>>
    /\ dirs = {}
    /\ files = {}
    /\ vector_log = {}
    /\ df = <<>>
    /\ csv = <<>>

Next ==
    \/ OpenFile
    \/ ReadLine
    \/ EndOfFile
    \/ CheckRequired
    \/ Assign
    \/ Validate
    \/ Authenticate
    \/ Initialize
    \/ Query
    \/ Calibrate
    \/ Classify
    \/ FilterEmpty
    \/ Radiance
    \/ ExportSwir
    \/ ExportSwnir
    \/ ExportExtreme
    \/ Report
    \/ Charts
    \/ ExternalServiceFailure

Spec == Init /\ [][Next]_vars

-----------------------------------------------------------------------------
(* Properties                                                              *)

Summed == pc \in {"export_swir", "export_swnir", "export_ep", "report", "charts"}
             \/ exit_code = 0

Filtered == pc = "radiance" \/ Summed

Classed == pc = "filter" \/ Filtered

Queried == pc \in {"calibrate", "classify"} \/ Classed

Written == pc = "charts" \/ exit_code = 0

Ids(collection) == {collection[i].id : i \in 1..Len(collection)}

\* the sum of a band over the pixels where another band is unmasked
SumWhere(band, where) ==
    SumSeq([k \in 1..Len(band) |-> IF band[k].ok /\ where[k].ok THEN band[k].n ELSE 0])

CountOf(band) == Cardinality({k \in 1..Len(band) : band[k].ok})

\* C1: a scene of the archive is selected by the query if and only if its
\* footprint contains the site, its sun elevation is above 0 and it was
\* acquired in [start_date, end_date + 1 day), the end_date day included.
C1_QuerySelectsThroughEndDate ==
    Queried =>
        \A i \in 1..Len(archive) :
            (archive[i].id \in Ids(merge(L8raw, L9raw)))
            <=> (/\ archive[i].covers
                 /\ archive[i].sunel > 0
                 /\ 2 * digits_value(site.start) <= archive[i].t
                 /\ archive[i].t < 2 * (digits_value(site.end) + 1))

\* C2: each radiance total is the sum of the band over the pixels retained by
\* the SWIR classifier plus its sum over those retained by the SWNIR
\* classifier (normalized difference strictly above 0).
C2_RadianceTotalsUseClassifierMasks ==
    Summed =>
        \A i \in 1..Len(Lcal) :
            LET img == L_nhi_ext_pix[i] IN
            /\ i \in 1..Len(rad_tot_Lb6)
            /\ i \in 1..Len(rad_tot_Lb7)
            /\ rad_tot_Lb6[i] = SumWhere(img.bands["B6"], img.bands["nhi_swir"])
                                 + SumWhere(img.bands["B6"], img.bands["nhi_swnir"])
            /\ rad_tot_Lb7[i] = SumWhere(img.bands["B7"], img.bands["nhi_swir"])
                                 + SumWhere(img.bands["B7"], img.bands["nhi_swnir"])

\* C3: every pixel retained in the extreme band is retained in the SWIR band,
\* and no written row has more extreme pixels than SWIR hot pixels.
C3_ExtremePixelsAreHotPixels ==
    /\ Classed =>
          \A i \in 1..Len(L_nhi_ext_pix) :
              \A k \in 1..NPixels(L_nhi_ext_pix[i]) :
                  L_nhi_ext_pix[i].bands["L_ext_pix"][k].ok
                      => L_nhi_ext_pix[i].bands["nhi_swir"][k].ok
    /\ Written => \A r \in 1..Len(csv) : csv[r].ext <= csv[r].swir

-----------------------------------------------------------------------------

\* the row the table holds for one classified scene
RowOf(img) ==
    [Date |-> strftime(img.t),
     swir |-> CountOf(img.bands["nhi_swir"]),
     swnir |-> CountOf(img.bands["nhi_swnir"]),
     hot |-> CountOf(img.bands["nhi_swir"]) + CountOf(img.bands["nhi_swnir"]),
     hot_area |-> 900 * (CountOf(img.bands["nhi_swir"]) + CountOf(img.bands["nhi_swnir"])),
     ext |-> CountOf(img.bands["L_ext_pix"]),
     ext_area |-> 900 * CountOf(img.bands["L_ext_pix"]),
     rad_b6 |-> SumSeq([k \in 1..NPixels(img) |->
                   LET nd == normalizedDifference(img, "B7", "B6")[k] IN
                   IF nd.ok /\ nd.n >= 0 THEN img.bands["B6"][k].n ELSE 0])
                + SumSeq([k \in 1..NPixels(img) |->
                   LET nd == normalizedDifference(img, "B6", "B5")[k] IN
                   IF nd.ok /\ nd.n >= 0 THEN img.bands["B6"][k].n ELSE 0]),
     rad_b7 |-> SumSeq([k \in 1..NPixels(img) |->
                   LET nd == normalizedDifference(img, "B7", "B6")[k] IN
                   IF nd.ok /\ nd.n >= 0 THEN img.bands["B7"][k].n ELSE 0])
                + SumSeq([k \in 1..NPixels(img) |->
                   LET nd == normalizedDifference(img, "B6", "B5")[k] IN
                   IF nd.ok /\ nd.n >= 0 THEN img.bands["B7"][k].n ELSE 0])]

\* C4: in every row of the table, before and after the sort by date, the
\* combined count is the sum of the SWIR and SWNIR counts, both areas are
\* 900 times their count, and the row holds the counts of one scene.
C4_RowArithmetic ==
    Written =>
        /\ Len(csv) = Len(L_nhi_ext_pix)
        /\ \A r \in 1..Len(csv) :
              /\ csv[r].hot = csv[r].swir + csv[r].swnir
              /\ csv[r].hot_area = csv[r].hot * 900
              /\ csv[r].ext_area = csv[r].ext * 900
              /\ \E i \in 1..Len(L_nhi_ext_pix) :
                    /\ csv[r].swir = CountOf(L_nhi_ext_pix[i].bands["nhi_swir"])
                    /\ csv[r].swnir = CountOf(L_nhi_ext_pix[i].bands["nhi_swnir"])
                    /\ csv[r].ext = CountOf(L_nhi_ext_pix[i].bands["L_ext_pix"])
                    /\ csv[r].Date = strftime(L_nhi_ext_pix[i].t)

\* a table of two rows with hot and extreme pixels, written in another order
\* than the one the scenes came in
C4_Witness ==
    /\ Written
    /\ Len(csv) = 2
    /\ fechas_dt[1] > fechas_dt[2]
    /\ csv[1].hot > csv[1].swir /\ csv[1].swir > 0 /\ csv[1].ext > 0
    /\ csv[1].hot # csv[2].hot

\* C5: the written table is sorted non-decreasing by acquisition date, in
\* whatever order the service returned the scenes.
C5_SortedByDate ==
    Written => \A r1, r2 \in 1..Len(csv) : r1 < r2 => csv[r1].Date <= csv[r2].Date

\* the service returned a later day first and the table was written
C5_Witness ==
    /\ Written
    /\ Len(csv) >= 2
    /\ \E i, j \in 1..Len(fechas_dt) : i < j /\ strftime(fechas_dt[i]) > strftime(fechas_dt[j])

\* the tables the script can write for an archive and a site
TablesOf(a, s) ==
    LET cal == Calibrated(Lraw(a, 8, s.start, s.end), Lraw(a, 9, s.start, s.end))
        cls == Classified(cal)
    IN {format_dates(sorted) : sorted \in
          sort_values(DataFrame([i \in 1..Len(cal) |-> cal[i].t],
                                count_pixels_per_image(cls, "nhi_swir"),
                                count_pixels_per_image(cls, "nhi_swnir"),
                                count_pixels_per_image(cls, "L_ext_pix"),
                                rad_tot_b6(cal), rad_tot_b7(cal)))}

Reordered(a, p) == [i \in 1..Len(a) |-> a[p[i]]]

DistinctTimes(a) == \A i, j \in 1..Len(a) : i # j => a[i].t # a[j].t

\* C6 as stated: whatever the order in which the service returns the scenes,
\* scenes of one acquisition timestamp included, the rows written are the same.
C6_DeterministicTable ==
    Written =>
        \A p \in Permutations(1..Len(archive)) :
            TablesOf(Reordered(archive, p), site) = {csv}

\* C6 amended: when no two scenes share an acquisition timestamp, the rows
\* written are the same in whatever order the service returns the scenes.
C6_DeterministicForDistinctTimes ==
    (Written /\ DistinctTimes(archive)) =>
        \A p \in Permutations(1..Len(archive)) :
            TablesOf(Reordered(archive, p), site) = {csv}

\* two scenes of different rows and times, returned latest first
C6_Witness ==
    /\ Written
    /\ DistinctTimes(archive)
    /\ Len(csv) = 2
    /\ fechas_dt[1] > fechas_dt[2]
    /\ csv[1] # csv[2]

-----------------------------------------------------------------------------

RequiredKeySet == {required_keys[i] : i \in 1..Len(required_keys)}

LacksDelimiter(l) ==
    /\ l # <<>>
    /\ l[1] \notin {"#", ";"}
    /\ \A i \in 1..Len(l) : l[i] # "="

\* all seven keys, coordinates in range, a positive radius, both dates given
ConfigAcceptable(d) ==
    /\ RequiredKeySet \subseteq DOMAIN d
    /\ float(d[K_lon]).ok /\ float(d[K_lat]).ok /\ float(d[K_radio]).ok
    /\ -180 <= float(d[K_lon]).v /\ float(d[K_lon]).v <= 180
    /\ -90 <= float(d[K_lat]).v /\ float(d[K_lat]).v <= 90
    /\ float(d[K_radio]).v > 0
    /\ d[K_start] # <<>> /\ d[K_end] # <<>>

ConfigStage == pc \in {"open", "read", "required", "assign", "validate"}

Success == "Input data successfully read!" \in printed

\* C8: a configuration failure (file not found, a line without '=', a
\* missing key, coordinates out of range, radius <= 0, an empty date) ends
\* the process with a non-zero status and no call to the service is made
\* before validation has completed.
C8_ConfigFailuresPrecedeExternalCalls ==
    /\ (LacksDelimiter(line) \/ "Input file not found" \in printed)
          => (pc = "exited" /\ exit_code = 1 /\ calls = {})
    /\ (~ConfigStage /\ ~ConfigAcceptable(params))
          => (pc = "exited" /\ exit_code = 1 /\ calls = {})
    /\ calls # {} => (Success /\ ConfigAcceptable(params))

\* a complete configuration with longitude 200 ended with status 1
C8_Witness ==
    /\ pc = "exited"
    /\ exit_code = 1
    /\ calls = {}
    /\ RequiredKeySet \subseteq DOMAIN params
    /\ params[K_lon] = <<"2", "0", "0">>
    /\ "Coordinates lon/lat are out of a valid range" \in printed

\* a line the loader ignores: blank, comment, or a key it does not know
Ignorable(l) ==
    \/ l = <<>>
    \/ l[1] \in {"#", ";"}
    \/ /\ contains(l, "=")
       /\ lower(strip(split_key(l))) \notin RequiredKeySet

RequiredPart(d) == [k \in RequiredKeySet \cap DOMAIN d |-> d[k]]

C10_SubsetIndependence ==
    Filtered =>
        \A i \in 1..Len(L_nhi_ext_pix) :
            LET img == L_nhi_ext_pix[i] IN
            /\ (img.id \in Ids(filt_L_nhi_swir)) <=> (CountOf(img.bands["nhi_swir"]) > 0)
            /\ (img.id \in Ids(filt_L_nhi_swnir)) <=> (CountOf(img.bands["nhi_swnir"]) > 0)
            /\ (img.id \in Ids(filt_L_nhi_ep)) <=> (CountOf(img.bands["L_ext_pix"]) > 0)

\* a scene without a SWIR pixel, left out of the SWIR subset, kept in the
\* SWNIR subset
C10_Witness ==
    /\ Filtered
    /\ \E i \in 1..Len(L_nhi_ext_pix) :
          /\ CountOf(L_nhi_ext_pix[i].bands["nhi_swir"]) = 0
          /\ L_nhi_ext_pix[i].id \notin Ids(filt_L_nhi_swir)
          /\ L_nhi_ext_pix[i].id \in Ids(filt_L_nhi_swnir)
          /\ L_nhi_ext_pix[i].id \notin Ids(filt_L_nhi_ep)

-----------------------------------------------------------------------------

Exported == pc \in {"report", "charts"} \/ exit_code = 0

FilesIn(folder) == {f \in files : f.folder = folder}

\* the step that exports an empty subset: nothing is made or written, and
\* unless the service fails on the size of the subset, the message is
\* printed and the script goes on
EmptyExportStep(from, collection, folder, message, to) ==
    (pc = from /\ collection = <<>>) =>
        /\ dirs' = dirs
        /\ files' = files
        /\ vector_log' = vector_log
        /\ "failed" \notin calls' =>
              /\ pc' = to
              /\ exit_code' = exit_code
              /\ printed' = printed \cup {message}

\* C11: when the kept subset of a classifier is empty, its export creates
\* no directory and writes no raster or vector file, prints the
\* informational message only, and the script goes on with the next
\* classifier and then the report.
C11_EmptySubsetExportsNothing ==
    /\ [](Exported =>
            /\ filt_L_nhi_swir = <<>> =>
                  (nhi_swir_folder \notin dirs /\ FilesIn(nhi_swir_folder) = {})
            /\ filt_L_nhi_swnir = <<>> =>
                  (nhi_swnir_folder \notin dirs /\ FilesIn(nhi_swnir_folder) = {})
            /\ filt_L_nhi_ep = <<>> =>
                  (nhi_extremes_folder \notin dirs /\ FilesIn(nhi_extremes_folder) = {}))
    /\ [][/\ EmptyExportStep("export_swir", filt_L_nhi_swir, nhi_swir_folder,
                             "No NHI SWIR pixels were found", "export_swnir")
          /\ EmptyExportStep("export_swnir", filt_L_nhi_swnir, nhi_swnir_folder,
                             "No NHI SWNIR pixels were found", "export_ep")
          /\ EmptyExportStep("export_ep", filt_L_nhi_ep, nhi_extremes_folder,
                             "No NHI Extreme Pixels were found", "report")]_vars

\* the table was written after an export with an empty SWIR subset, a
\* SWNIR subset that was exported and an empty extreme subset
C11_Witness ==
    /\ Written
    /\ filt_L_nhi_swir = <<>> /\ filt_L_nhi_swnir # <<>> /\ filt_L_nhi_ep = <<>>
    /\ dirs = {nhi_swnir_folder}
    /\ FilesIn(nhi_swnir_folder) # {}
    /\ "No NHI SWIR pixels were found" \in printed
    /\ "No NHI Extreme Pixels were found" \in printed

-----------------------------------------------------------------------------

Subset(folder) ==
    CASE folder = nhi_swir_folder -> filt_L_nhi_swir
      [] folder = nhi_swnir_folder -> filt_L_nhi_swnir
      [] folder = nhi_extremes_folder -> filt_L_nhi_ep

\* the export of the folder has been left without an exception
AfterExport(folder) ==
    \/ Exported
    \/ folder = nhi_swir_folder /\ pc \in {"export_swnir", "export_ep"}
    \/ folder = nhi_swnir_folder /\ pc = "export_ep"

ExportPc(folder) ==
    CASE folder = nhi_swir_folder -> "export_swir"
      [] folder = nhi_swnir_folder -> "export_swnir"
      [] folder = nhi_extremes_folder -> "export_ep"

AfterPc(folder) ==
    CASE folder = nhi_swir_folder -> "export_swnir"
      [] folder = nhi_swnir_folder -> "export_ep"
      [] folder = nhi_extremes_folder -> "report"

Logged(folder, id, event) == [folder |-> folder, id |-> id, event |-> event] \in vector_log

Shp(folder, id) == [folder |-> folder, name |-> id, kind |-> "shp"]

\* a failure inside the try block of gee_raster_2_shp
Caught(f) == f.reply \in {"error", "write_error"}

\* C12: a failure of the vectorization call, the feature retrieval or the
\* vector file write of one scene is reported for that scene only; the
\* later scenes of the subset are processed, the export step ends without
\* an exception and the script goes on to the next classifier or the report.
C12_SceneFailureIsLocal ==
    /\ [](\A f \in replies :
            (Caught(f) /\ AfterExport(f.folder) /\ f.id \in Ids(Subset(f.folder))) =>
                /\ Logged(f.folder, f.id, "Error en")
                /\ Shp(f.folder, f.id) \notin files
                /\ \A id \in Ids(Subset(f.folder)) \ {f.id} :
                      /\ Logged(f.folder, id, "Vectorizando imagen")
                      /\ ~Logged(f.folder, id, "Error en")
                      /\ Shp(f.folder, id) \in files)
    /\ [][\A folder \in Folders :
            (/\ pc = ExportPc(folder)
             /\ "failed" \notin calls'
             /\ \A f \in replies : f.folder = folder => Caught(f))
            => (pc' = AfterPc(folder) /\ exit_code' = exit_code)]_vars

\* the vectorization of the first of two SWIR scenes failed, the second
\* scene and the two other subsets were exported and the table was written
C12_Witness ==
    /\ Written
    /\ replies = {[folder |-> nhi_swir_folder, id |-> 1, reply |-> "error"]}
    /\ Len(filt_L_nhi_swir) = 2
    /\ Logged(nhi_swir_folder, 1, "Error en")
    /\ Shp(nhi_swir_folder, 2) \in files
    /\ Shp(nhi_swnir_folder, 1) \in files
    /\ Shp(nhi_extremes_folder, 2) \in files
    /\ Len(csv) = 2

-----------------------------------------------------------------------------

\* the radiance of band b at pixel k of calibrated scene i
Rad(i, b, k) == Lcal[i].bands[b][k].n

\* C13 as stated: for every calibrated pixel with a positive band sum the
\* SWIR band retains the pixel if and only if B7 > B6, the SWNIR band if and
\* only if B6 > B5, and each band is what its classifier gives on its own.
C13_StrictClassifiers ==
    Classed =>
        \A i \in 1..Len(Lcal) :
            /\ L_nhi_ext_pix[i].bands["nhi_swir"] = L_nhi_swir_hp(Lcal[i]).bands["nhi_swir"]
            /\ L_nhi_ext_pix[i].bands["nhi_swnir"] = L_nhi_swnir_hp(Lcal[i]).bands["nhi_swnir"]
            /\ \A k \in 1..NPixels(Lcal[i]) :
                  Lcal[i].bands["B6"][k].ok =>
                      /\ Rad(i, "B7", k) + Rad(i, "B6", k) > 0 =>
                            (L_nhi_ext_pix[i].bands["nhi_swir"][k].ok
                                <=> Rad(i, "B7", k) > Rad(i, "B6", k))
                      /\ Rad(i, "B6", k) + Rad(i, "B5", k) > 0 =>
                            (L_nhi_ext_pix[i].bands["nhi_swnir"][k].ok
                                <=> Rad(i, "B6", k) > Rad(i, "B5", k))

\* C13 amended: the same for the pixels whose two band radiances are not
\* negative; a pixel with a negative radiance in a band of the index is
\* masked out of that index.
C13_StrictClassifiersOnNonNegativeRadiances ==
    Classed =>
        \A i \in 1..Len(Lcal) :
            /\ L_nhi_ext_pix[i].bands["nhi_swir"] = L_nhi_swir_hp(Lcal[i]).bands["nhi_swir"]
            /\ L_nhi_ext_pix[i].bands["nhi_swnir"] = L_nhi_swnir_hp(Lcal[i]).bands["nhi_swnir"]
            /\ \A k \in 1..NPixels(Lcal[i]) :
                  Lcal[i].bands["B6"][k].ok =>
                      /\ (/\ Rad(i, "B7", k) >= 0 /\ Rad(i, "B6", k) >= 0
                          /\ Rad(i, "B7", k) + Rad(i, "B6", k) > 0) =>
                            (L_nhi_ext_pix[i].bands["nhi_swir"][k].ok
                                <=> Rad(i, "B7", k) > Rad(i, "B6", k))
                      /\ (/\ Rad(i, "B6", k) >= 0 /\ Rad(i, "B5", k) >= 0
                          /\ Rad(i, "B6", k) + Rad(i, "B5", k) > 0) =>
                            (L_nhi_ext_pix[i].bands["nhi_swnir"][k].ok
                                <=> Rad(i, "B6", k) > Rad(i, "B5", k))
                      /\ (Rad(i, "B7", k) < 0 \/ Rad(i, "B6", k) < 0) =>
                            ~L_nhi_ext_pix[i].bands["nhi_swir"][k].ok
                      /\ (Rad(i, "B6", k) < 0 \/ Rad(i, "B5", k) < 0) =>
                            ~L_nhi_ext_pix[i].bands["nhi_swnir"][k].ok

\* a scene classified with the pixel B7 = 80, B6 = 60, B5 = 40, retained by
\* both indices
C13_Witness ==
    /\ Classed
    /\ Len(Lcal) = 1
    /\ NPixels(Lcal[1]) = 1
    /\ Rad(1, "B7", 1) = 800 /\ Rad(1, "B6", 1) = 600 /\ Rad(1, "B5", 1) = 400
    /\ L_nhi_ext_pix[1].bands["nhi_swir"][1].ok
    /\ L_nhi_ext_pix[1].bands["nhi_swnir"][1].ok
    /\ L_nhi_ext_pix[1].bands["nhi_swir"][1].n > 0

-----------------------------------------------------------------------------

\* the pixel passes the two radiance thresholds of the extreme classifier
PassesThresholds(i, k) == Rad(i, "B6", k) >= 713 /\ Rad(i, "B1", k) < 700

\* C14: the extreme band retains a pixel only if its B6 radiance is at least
\* 71.3 and its B1 radiance below 70; a scene whose pixels all fail a
\* threshold has an extreme count of 0 and is not in the extreme subset.
C14_ExtremeThresholds ==
    /\ Classed =>
          \A i \in 1..Len(Lcal) :
              /\ \A k \in 1..NPixels(Lcal[i]) :
                    L_nhi_ext_pix[i].bands["L_ext_pix"][k].ok => PassesThresholds(i, k)
              /\ (\A k \in 1..NPixels(Lcal[i]) : ~PassesThresholds(i, k))
                    => L_nhi_ep_pc[i] = 0
    /\ Filtered =>
          \A i \in 1..Len(Lcal) :
              (\A k \in 1..NPixels(Lcal[i]) : ~PassesThresholds(i, k))
                  => Lcal[i].id \notin Ids(filt_L_nhi_ep)

\* the scene of the one pixel B7 = 80, B6 = 60, B5 = 40, B1 = 50: counted
\* as a SWIR hot pixel, kept in the SWIR subset, not in the extreme subset
C14_Witness ==
    /\ Filtered
    /\ Len(Lcal) = 1
    /\ NPixels(Lcal[1]) = 1
    /\ Rad(1, "B7", 1) = 800 /\ Rad(1, "B6", 1) = 600
    /\ Rad(1, "B5", 1) = 400 /\ Rad(1, "B1", 1) = 500
    /\ L_nhi_swir_pc = <<1>>
    /\ L_nhi_ep_pc = <<0>>
    /\ filt_L_nhi_swir # <<>>
    /\ filt_L_nhi_ep = <<>>

-----------------------------------------------------------------------------

\* the vectorization of the scene was called and returned its features
Vectorized(folder, id) ==
    /\ Logged(folder, id, "Vectorizando imagen")
    /\ reply_of(replies, folder, id) \in {"features", "empty", "write_error"}

HasFeatures(folder, id) == reply_of(replies, folder, id) \in {"features", "write_error"}

\* a scene without features: no file, the diagnostic, no error, and every
\* scene of the subset was taken up
SkippedQuietly(folder, id) ==
    /\ Shp(folder, id) \notin files
    /\ Logged(folder, id, "Sin datos en")
    /\ ~Logged(folder, id, "Error en")
    /\ \A other \in Ids(Subset(folder)) : Logged(folder, other, "Vectorizando imagen")

ShpNames(folder) == {f.name : f \in {g \in FilesIn(folder) : g.kind = "shp"}}

\* C15 as stated: a vector file named by the scene's identifier is written
\* if and only if the vectorization of the scene succeeded and returned at
\* least one feature; a scene of zero features is skipped with a diagnostic.
C15_VectorFileIffFeatures ==
    \A folder \in Folders :
        AfterExport(folder) =>
            /\ ShpNames(folder) \subseteq Ids(Subset(folder))
            /\ \A id \in Ids(Subset(folder)) :
                  /\ Shp(folder, id) \in files
                        <=> (Vectorized(folder, id) /\ HasFeatures(folder, id))
                  /\ (Vectorized(folder, id) /\ ~HasFeatures(folder, id))
                        => SkippedQuietly(folder, id)

\* C15 amended: the file is written if and only if the vectorization
\* succeeded, returned at least one feature and the write of the file did
\* not fail; a scene of zero features is skipped with a diagnostic.
C15_VectorFileIffFeaturesWritten ==
    \A folder \in Folders :
        AfterExport(folder) =>
            /\ ShpNames(folder) \subseteq Ids(Subset(folder))
            /\ \A id \in Ids(Subset(folder)) :
                  /\ Shp(folder, id) \in files
                        <=> (/\ Vectorized(folder, id)
                             /\ HasFeatures(folder, id)
                             /\ reply_of(replies, folder, id) # "write_error")
                  /\ (Vectorized(folder, id) /\ ~HasFeatures(folder, id))
                        => SkippedQuietly(folder, id)

\* the first of two SWNIR scenes gave no feature, the second one was
\* written, and the table was written
C15_Witness ==
    /\ Written
    /\ replies = {[folder |-> nhi_swnir_folder, id |-> 1, reply |-> "empty"]}
    /\ Len(filt_L_nhi_swnir) = 2
    /\ Logged(nhi_swnir_folder, 1, "Sin datos en")
    /\ ShpNames(nhi_swnir_folder) = {2}

-----------------------------------------------------------------------------

\* the scenes of the collection at which the count list is above 0
Counted(pc_list) ==
    {L_nhi_ext_pix[i].id : i \in {j \in 1..Len(L_nhi_ext_pix) :
                                    j \in 1..Len(pc_list) /\ pc_list[j] > 0}}

\* C16: for each classifier a scene is in the kept subset if and only if the
\* pixel count the table reports for it is above 0, and the size of the
\* subset is the number of rows of the table with a count above 0.
C16_SubsetsMatchCounts ==
    /\ Filtered =>
          /\ Ids(filt_L_nhi_swir) = Counted(L_nhi_swir_pc)
          /\ Ids(filt_L_nhi_swnir) = Counted(L_nhi_swnir_pc)
          /\ Ids(filt_L_nhi_ep) = Counted(L_nhi_ep_pc)
    /\ Written =>
          /\ Len(filt_L_nhi_swir) = Cardinality({r \in 1..Len(csv) : csv[r].swir > 0})
          /\ Len(filt_L_nhi_swnir) = Cardinality({r \in 1..Len(csv) : csv[r].swnir > 0})
          /\ Len(filt_L_nhi_ep) = Cardinality({r \in 1..Len(csv) : csv[r].ext > 0})

\* a table of two rows, one of them without a hot pixel, and one scene in
\* each subset
C16_Witness ==
    /\ Written
    /\ Len(csv) = 2
    /\ \E r \in 1..2 : csv[r].swir = 0 /\ csv[r].swnir = 0 /\ csv[r].ext = 0
    /\ \E r \in 1..2 : csv[r].swir > 0 /\ csv[r].swnir > 0 /\ csv[r].ext > 0
    /\ Len(filt_L_nhi_swir) = 1
    /\ Len(filt_L_nhi_swnir) = 1
    /\ Len(filt_L_nhi_ep) = 1

====
